---- MODULE Spec2Model ----
(***************************************************************************)
(* The training programs of the PyTorch course notebooks: the MNIST        *)
(* CNN / LSTM training cells (CPU and GPU variants), the GAN training      *)
(* loop, the linear-regression notebook and the gradient notebook.         *)
(*                                                                         *)
(* Tensor arithmetic belongs to the framework.  What the notebooks own is  *)
(* the order of the framework calls, the loop counters and the choice of   *)
(* which parameters an optimizer updates; these are what is modelled:      *)
(*   params / dParams / gParams : index k of the current parameter value   *)
(*       theta_k, where theta_(k+1) is what one optimizer.step() makes     *)
(*       of theta_k and the stored gradient;                               *)
(*   grad / dGrad / gGrad : how many backward passes have been             *)
(*       accumulated into the .grad buffers since they were last zeroed.   *)
(***************************************************************************)
EXTENDS Integers, Sequences, FiniteSets, TLC

VARIABLES
    notebook,   \* which notebook (training program) is being run
    cuda,       \* torch.cuda.is_available()
    cell,       \* index of the next cell (recipe step) of the notebook
    recipe,     \* kinds of the cells run so far, in order
    pc,         \* position inside the running cell
    epoch,      \* index of the current epoch of the training loop
    i,          \* index of the current batch inside the epoch
    iter,       \* the notebooks' iteration counter `iter`
    grad,       \* backward passes accumulated in model.parameters().grad
    params,     \* index of the current value of model.parameters()
    ops,        \* framework calls made on the current training batch
    device,     \* where the current batch tensors were placed
    te,         \* index of the next test batch of an evaluation
    total,      \* `total` of the evaluation loop
    printed,    \* iteration numbers of the progress lines printed so far
    dGrad,      \* backward passes accumulated in D.parameters().grad
    gGrad,      \* backward passes accumulated in G.parameters().grad
    dParams,    \* index of the current value of D.parameters()
    gParams,    \* index of the current value of G.parameters()
    dAtEpoch,   \* dParams when the current epoch began
    gAtEpoch,   \* gParams when the current epoch began
    logged,     \* len(d_losses)
    nSaved,     \* number of fake_images-*.png files written
    lastSaved,  \* index of the file written last (-1: none yet)
    raises,     \* number of framework calls that have raised
    x,          \* the Variable x of the gradient notebook (<<>>: not made)
    xGrad,      \* x.grad (<<>>: None)
    preds,      \* index of the parameter value `preds` was computed from
    loss,       \* index of the parameter value `loss` was computed from
    wGrad,      \* the losses (by parameter index) whose gradients are
                \* summed in w.grad and b.grad, in the order of the
                \* backward passes
    atReset     \* <<params, preds, loss, wGrad>> just before the cell
                \* w.grad.zero_() ; b.grad.zero_() was run

envVars == <<notebook, cuda, raises>>

mnistVars == <<iter, grad, params, te, total, printed>>

ganVars == <<dGrad, gGrad, dParams, gParams, dAtEpoch, gAtEpoch, logged,
             nSaved, lastSaved>>

gradVars == <<x, xGrad, preds, loss, wGrad, atReset>>

vars == <<envVars, cell, recipe, pc, epoch, i, ops, device, mnistVars,
          ganVars, gradVars>>

(***************************************************************************)
(* Configured values of the MNIST notebooks.                               *)
(***************************************************************************)
TrainSize == 60000

TestSize == 10000

batch_size == 100

n_iters == 3000

EvalEvery == 500

\* ceiling division: the number of batches a DataLoader (drop_last = False)
\* yields for a dataset of n examples.
CeilDiv(n, d) == (n + d - 1) \div d

\* num_epochs = int(n_iters / (len(train_dataset) / batch_size)):
\* true division twice, then truncation, i.e. floor(n_iters*batch_size/len).
num_epochs == (n_iters * batch_size) \div TrainSize

\* len(train_loader)
BatchesPerEpoch == CeilDiv(TrainSize, batch_size)

\* len(test_loader)
TestBatches == CeilDiv(TestSize, batch_size)

(***************************************************************************)
(* Notebooks and their cells.                                              *)
(***************************************************************************)
MnistCpu == {"cnn", "lstm"}

MnistGpu == {"cnn_gpu", "lstm_gpu"}

Mnist == MnistCpu \cup MnistGpu

Notebooks == Mnist \cup {"gan", "linreg", "grad"}

\* the programs that read torch.cuda.is_available()
UsesCuda == MnistGpu \cup {"gan"}

\* The cells of each notebook, by what they do, in source order.
CnnCells ==
    <<"load", "inspect", "inspect", "inspect", "inspect", "loader",
      "define", "instantiate", "loss", "optimizer", "inspect", "train">>

LstmCells ==
    <<"load", "inspect", "inspect", "inspect", "inspect", "loader",
      "define", "instantiate", "loss", "optimizer", "inspect", "inspect",
      "train">>

\* the STEP sections of the one-cell GPU programs
GpuCells ==
    <<"load", "loader", "define", "instantiate", "loss", "optimizer",
      "train">>

GanCells ==
    <<"load", "inspect", "helper", "inspect", "loader", "inspect",
      "helper", "inspect", "helper", "instantiate", "helper", "helper",
      "instantiate", "inspect", "inspect", "inspect", "helper",
      "loss", "optimizer", "helper", "optimizer", "helper", "helper",
      "helper", "sample", "train", "helper", "inspect", "inspect",
      "inspect", "inspect", "helper", "inspect", "inspect">>

LinregCells ==
    <<"helper", "load", "load", "helper", "instantiate", "define",
      "forward", "inspect", "loss", "compute_loss", "backward", "inspect",
      "inspect", "zero", "forward", "compute_loss", "backward", "update",
      "inspect", "forward_loss", "train_manual", "forward_loss", "inspect",
      "inspect", "helper", "load", "helper", "load", "helper",
      "loader", "inspect", "instantiate", "inspect", "forward",
      "helper", "loss", "forward_loss", "optimizer", "helper", "train_fit",
      "forward", "inspect">>

GradCells ==
    <<"helper", "variable", "inspect", "variable", "inspect",
      "variable_x", "variable", "variable", "backward", "inspect",
      "backward">>

\* the optimizer cell is run before the cell that instantiates the model
\* whose parameters it is given.
Cells_OptimizerBeforeModel(nb) ==
    CASE nb = "cnn" -> CnnCells
      [] nb = "lstm" -> LstmCells
      [] nb \in MnistGpu ->
           <<"load", "loader", "define", "optimizer", "instantiate", "loss",
             "train">>
      [] nb = "gan" -> GanCells
      [] nb = "linreg" -> LinregCells
      [] nb = "grad" -> GradCells

Cells(nb) ==
    CASE nb = "cnn" -> CnnCells
      [] nb = "lstm" -> LstmCells
      [] nb \in MnistGpu -> GpuCells
      [] nb = "gan" -> GanCells
      [] nb = "linreg" -> LinregCells
      [] nb = "grad" -> GradCells

LastCell(nb) == Len(Cells(nb))

\* where control goes when a cell ends
AfterCell(nb, c) == IF c > LastCell(nb) THEN "done" ELSE "cells"

\* The cells that start a loop or write a file have their own actions.
OwnAction == {"train", "train_manual", "train_fit", "sample"}

\* What a cell run on its own does to the stored gradient: backward adds
\* to it, .grad.zero_() and a fresh model clear it.
GradAfter(kind, g) ==
    CASE kind = "backward" -> g + 1
      [] kind \in {"zero", "update", "instantiate"} -> 0
      [] OTHER -> g

\* The reset cell calls w.zero_() and b.zero_() instead of w.grad.zero_()
\* and b.grad.zero_(): it makes new (zero) weights.
ParamsAfter_ZeroResetsWeights(kind, p) ==
    CASE kind \in {"update", "zero"} -> p + 1
      [] kind = "instantiate" -> 0
      [] OTHER -> p

\* What a cell run on its own does to the parameters: the update cell
\* (w -= w.grad * 1e-5 ; b -= b.grad * 1e-5) makes the next value, a
\* model instantiation makes fresh ones.
ParamsAfter(kind, p) ==
    CASE kind = "update" -> p + 1
      [] kind = "instantiate" -> 0
      [] OTHER -> p

(***************************************************************************)
(* The tensors of the gradient notebook and of the linear-regression       *)
(* notebook's step-by-step cells.                                          *)
(***************************************************************************)
\* torch.ones(n)
Ones(n) == [k \in 1..n |-> 1]

\* y = 5 * (x + 1) ** 2
Y(v) == [k \in DOMAIN v |-> 5 * (v[k] + 1) ^ 2]

RECURSIVE SumSeq(_)
SumSeq(v) == IF v = <<>> THEN 0 ELSE Head(v) + SumSeq(Tail(v))

\* o = (1/2) * torch.sum(y)
O(v) == SumSeq(Y(v)) \div 2

\* The gradient that o.backward(seed) sends to x: the seed goes back
\* through (1/2) * . , torch.sum, 5 * . , . ** 2 and . + 1, which multiply
\* it by 1/2, 1, 5, 2 * (x + 1) and 1.
DoDx(v, seed) == [k \in DOMAIN v |-> (seed * 5 * 2 * (v[k] + 1)) \div 2]

\* .grad is set by the first backward pass and added to by the later ones
Accumulate(g, d) ==
    IF g = <<>> THEN d ELSE [k \in DOMAIN d |-> g[k] + d[k]]

\* x = Variable(torch.ones(2), requires_grad = True)
XAfter(nb, kind, v) ==
    IF nb = "grad" /\ kind = "variable_x" THEN Ones(2) ELSE v

\* backward replaces the stored gradient instead of adding to it.
XGradAfter_Overwrites(nb, kind, v, g) ==
    IF nb = "grad" /\ kind = "backward" THEN DoDx(v, 1) ELSE g

\* o.backward(retain_graph=True) ; o.backward(torch.tensor(1.0))
XGradAfter(nb, kind, v, g) ==
    IF nb = "grad" /\ kind = "backward"
      THEN Accumulate(g, DoDx(v, 1))
      ELSE g

\* preds = model(inputs): computed from the current w and b
PredsAfter(nb, kind, p, pr) ==
    IF nb = "linreg" /\ kind \in {"forward", "forward_loss"} THEN p ELSE pr

\* loss = mse(preds, targets): computed from the current preds
LossAfter(nb, kind, p, pr, l) ==
    CASE nb = "linreg" /\ kind = "compute_loss" -> pr
      [] nb = "linreg" /\ kind = "forward_loss" -> p
      [] OTHER -> l

\* loss.backward() adds the gradient of loss to w.grad and b.grad;
\* .grad.zero_() empties them, as does the end of the update cell; a new
\* model has no gradient.
WGradAfter(nb, kind, l, g) ==
    CASE nb = "linreg" /\ kind = "backward" -> Append(g, l)
      [] nb = "linreg" /\ kind \in {"zero", "update", "instantiate"} -> <<>>
      [] OTHER -> g

\* what w, b, preds, loss and the gradients were when the reset cell began
AtResetAfter(nb, kind, now, old) ==
    IF nb = "linreg" /\ kind = "zero" THEN now ELSE old

(***************************************************************************)
(* Initial state: a fresh kernel about to run the first cell.              *)
(***************************************************************************)
Init ==
    /\ notebook \in Notebooks
    /\ cuda \in (IF notebook \in UsesCuda THEN BOOLEAN ELSE {FALSE})
    /\ cell = 1
    /\ recipe = <<>>
    /\ pc = "cells"
    /\ epoch = 0
    /\ i = 0
    /\ iter = 0
    /\ grad = 0
    /\ params = 0
    /\ ops = <<>>
    /\ device = "none"
    /\ te = 0
    /\ total = 0
    /\ printed = <<>>
    /\ dGrad = 0
    /\ gGrad = 0
    /\ dParams = 0
    /\ gParams = 0
    /\ dAtEpoch = 0
    /\ gAtEpoch = 0
    /\ logged = 0
    /\ nSaved = 0
    /\ lastSaved = -1
    /\ raises = 0
    /\ x = <<>>
    /\ xGrad = <<>>
    /\ preds = -1
    /\ loss = -1
    /\ wGrad = <<>>
    /\ atReset = <<>>

(***************************************************************************)
(* Running the cells before the training loop, and entering the loop.      *)
(***************************************************************************)
RunCell ==
    /\ pc = "cells"
    /\ cell <= LastCell(notebook)
    /\ Cells(notebook)[cell] \notin OwnAction
    /\ recipe' = Append(recipe, Cells(notebook)[cell])
    /\ cell' = cell + 1
    /\ grad' = GradAfter(Cells(notebook)[cell], grad)
    /\ params' = ParamsAfter(Cells(notebook)[cell], params)
    /\ pc' = AfterCell(notebook, cell + 1)
    /\ x' = XAfter(notebook, Cells(notebook)[cell], x)
    /\ xGrad' = XGradAfter(notebook, Cells(notebook)[cell], x, xGrad)
    /\ preds' = PredsAfter(notebook, Cells(notebook)[cell], params, preds)
    /\ loss' = LossAfter(notebook, Cells(notebook)[cell], params, preds, loss)
    /\ wGrad' = WGradAfter(notebook, Cells(notebook)[cell], loss, wGrad)
    /\ atReset' = AtResetAfter(notebook, Cells(notebook)[cell],
                               <<params, preds, loss, wGrad>>, atReset)
    /\ UNCHANGED <<ganVars, envVars, epoch, i, iter, ops, device, te,
                   total, printed>>

\* iter = 0, then the first evaluation of `for epoch in range(num_epochs)`
StartTraining ==
    /\ pc = "cells"
    /\ cell <= LastCell(notebook)
    /\ Cells(notebook)[cell] = "train"
    /\ notebook \in Mnist
    /\ recipe' = Append(recipe, "train")
    /\ cell' = cell + 1
    /\ iter' = 0
    /\ epoch' = 0
    /\ i' = 0
    /\ pc' = "for_epoch"
    /\ UNCHANGED <<gradVars, ganVars, envVars, grad, params, ops, device, te,
                   total, printed>>

(***************************************************************************)
(* The MNIST training loop (CNN Model A and GPU cell, LSTM Model A and     *)
(* GPU cell: the same statements).                                         *)
(***************************************************************************)
\* One epoch too many: the bound of the range is included.
ForEpoch_Inclusive ==
    /\ pc = "for_epoch"
    /\ notebook \in Mnist
    /\ IF epoch <= num_epochs
         THEN pc' = "for_batch" /\ i' = 0
         ELSE pc' = AfterCell(notebook, cell) /\ i' = i
    /\ UNCHANGED <<gradVars, ganVars, envVars, cell, recipe, epoch, iter,
                   grad, params, ops, device, te, total, printed>>

\* for epoch in range(num_epochs):
ForEpoch ==
    /\ pc = "for_epoch"
    /\ notebook \in Mnist
    /\ IF epoch < num_epochs
         THEN pc' = "for_batch" /\ i' = 0
         ELSE pc' = AfterCell(notebook, cell) /\ i' = i
    /\ UNCHANGED <<gradVars, ganVars, envVars, cell, recipe, epoch, iter,
                   grad, params, ops, device, te, total, printed>>

\* for i, (images, labels) in enumerate(train_loader):
ForBatch ==
    /\ pc = "for_batch"
    /\ notebook \in Mnist
    /\ IF i < BatchesPerEpoch
         THEN pc' = "convert" /\ epoch' = epoch /\ ops' = <<>>
         ELSE pc' = "for_epoch" /\ epoch' = epoch + 1 /\ ops' = ops
    /\ UNCHANGED <<gradVars, ganVars, envVars, cell, recipe, i, iter, grad,
                   params, device, te, total, printed>>

\* The gradient clearing sits in the CPU branch only.
Convert_CudaSkipsZeroGrad ==
    /\ pc = "convert"
    /\ device' = IF notebook \in MnistGpu /\ cuda THEN "cuda" ELSE "cpu"
    /\ pc' = IF notebook \in MnistGpu /\ cuda THEN "forward" ELSE "zero_grad"
    /\ UNCHANGED <<gradVars, ganVars, envVars, cell, recipe, epoch, i, iter,
                   grad, params, ops, te, total, printed>>

\* images = Variable(images) ; labels = Variable(labels)
\* GPU cells: if torch.cuda.is_available(): ... .cuda() else: ...
Convert ==
    /\ pc = "convert"
    /\ device' = IF notebook \in MnistGpu /\ cuda THEN "cuda" ELSE "cpu"
    /\ pc' = "zero_grad"
    /\ UNCHANGED <<gradVars, ganVars, envVars, cell, recipe, epoch, i, iter,
                   grad, params, ops, te, total, printed>>

\* The gradient buffers are not cleared: the call is missing.
ZeroGrad_Missing ==
    /\ pc = "zero_grad"
    /\ pc' = "forward"
    /\ UNCHANGED <<gradVars, ganVars, envVars, cell, recipe, epoch, i, iter,
                   grad, params, ops, device, te, total, printed>>

\* optimizer.zero_grad()
ZeroGrad ==
    /\ pc = "zero_grad"
    /\ grad' = 0
    /\ ops' = Append(ops, "zero_grad")
    /\ pc' = "forward"
    /\ UNCHANGED <<gradVars, ganVars, envVars, cell, recipe, epoch, i, iter,
                   params, device, te, total, printed>>

\* outputs = model(images)
Forward ==
    /\ pc = "forward"
    /\ ops' = Append(ops, "forward")
    /\ pc' = "loss"
    /\ UNCHANGED <<gradVars, ganVars, envVars, cell, recipe, epoch, i, iter,
                   grad, params, device, te, total, printed>>

\* loss = criterion(outputs, labels)
Loss ==
    /\ pc = "loss"
    /\ ops' = Append(ops, "loss")
    /\ pc' = "backward"
    /\ UNCHANGED <<gradVars, ganVars, envVars, cell, recipe, epoch, i, iter,
                   grad, params, device, te, total, printed>>

\* loss.backward(): adds this batch's gradient to the .grad buffers
Backward ==
    /\ pc = "backward"
    /\ grad' = grad + 1
    /\ ops' = Append(ops, "backward")
    /\ pc' = "step"
    /\ UNCHANGED <<gradVars, ganVars, envVars, cell, recipe, epoch, i, iter,
                   params, device, te, total, printed>>

\* The update is applied twice in one iteration.
Step_Twice ==
    /\ pc = "step"
    /\ params' = params + 2
    /\ ops' = Append(Append(ops, "step"), "step")
    /\ pc' = "incr"
    /\ UNCHANGED <<gradVars, ganVars, envVars, cell, recipe, epoch, i, iter,
                   grad, device, te, total, printed>>

\* optimizer.step(): parameters = parameters - learning_rate * gradients
Step ==
    /\ pc = "step"
    /\ params' = params + 1
    /\ ops' = Append(ops, "step")
    /\ pc' = "incr"
    /\ UNCHANGED <<gradVars, ganVars, envVars, cell, recipe, epoch, i, iter,
                   grad, device, te, total, printed>>

\* The multiple-of-500 test is made on the counter before it is increased.
Incr_TestBeforeIncrement ==
    /\ pc = "incr"
    /\ iter' = iter + 1
    /\ IF iter % EvalEvery = 0
         THEN pc' = "eval_batch" /\ te' = 0 /\ total' = 0 /\ i' = i
         ELSE pc' = "for_batch" /\ i' = i + 1 /\ te' = te /\ total' = total
    /\ UNCHANGED <<gradVars, ganVars, envVars, cell, recipe, epoch, grad,
                   params, ops, device, printed>>

\* iter += 1 ; if iter % 500 == 0: correct = 0 ; total = 0 ; for ... in test_loader
\* otherwise the body ends and the batch loop advances
Incr ==
    /\ pc = "incr"
    /\ iter' = iter + 1
    /\ IF (iter + 1) % EvalEvery = 0
         THEN pc' = "eval_batch" /\ te' = 0 /\ total' = 0 /\ i' = i
         ELSE pc' = "for_batch" /\ i' = i + 1 /\ te' = te /\ total' = total
    /\ UNCHANGED <<gradVars, ganVars, envVars, cell, recipe, epoch, grad,
                   params, ops, device, printed>>

\* for images, labels in test_loader: images = Variable(images) [.cuda()];
\*   outputs = model(images); predicted = max; total += labels.size(0);
\*   correct += (predicted == labels).sum()
EvalBatch ==
    /\ pc = "eval_batch"
    /\ IF te < TestBatches
         THEN /\ te' = te + 1
              /\ total' = total + batch_size
              /\ device' = IF notebook \in MnistGpu /\ cuda THEN "cuda" ELSE "cpu"
              /\ pc' = "eval_batch"
         ELSE /\ pc' = "print"
              /\ UNCHANGED <<gradVars, te, total, device>>
    /\ UNCHANGED <<gradVars, ganVars, envVars, cell, recipe, epoch, i, iter,
                   grad, params, ops, printed>>

\* accuracy = 100 * correct / total ; print('Iterations: {} ...'.format(iter, ...))
\* then the body ends and the batch loop advances
PrintProgress ==
    /\ pc = "print"
    /\ printed' = Append(printed, iter)
    /\ i' = i + 1
    /\ pc' = "for_batch"
    /\ UNCHANGED <<gradVars, ganVars, envVars, cell, recipe, epoch, iter,
                   grad, params, ops, device, te, total>>

(***************************************************************************)
(* The GAN notebook: save_fake_images(0), then the training loop with      *)
(* train_discriminator and train_generator.                                *)
(***************************************************************************)
GanNumEpochs == 300

LogEvery == 200

\* sample_vectors = ... ; def save_fake_images ; save_fake_images(0)
SaveBeforeTraining ==
    /\ pc = "cells"
    /\ cell <= LastCell(notebook)
    /\ Cells(notebook)[cell] = "sample"
    /\ recipe' = Append(recipe, "sample")
    /\ cell' = cell + 1
    /\ nSaved' = nSaved + 1
    /\ lastSaved' = 0
    /\ pc' = AfterCell(notebook, cell + 1)
    /\ UNCHANGED <<gradVars, envVars, epoch, i, ops, device, mnistVars, dGrad,
                   gGrad, dParams, gParams, dAtEpoch, gAtEpoch, logged>>

\* num_epochs = 300 ; total_step = len(data_loader) ; d_losses, ... = [], ...
\* then the first evaluation of `for epoch in range(num_epochs)`
StartGanTraining ==
    /\ pc = "cells"
    /\ cell <= LastCell(notebook)
    /\ Cells(notebook)[cell] = "train"
    /\ notebook = "gan"
    /\ recipe' = Append(recipe, "train")
    /\ cell' = cell + 1
    /\ epoch' = 0
    /\ i' = 0
    /\ logged' = 0
    /\ pc' = "g_for_epoch"
    /\ UNCHANGED <<gradVars, envVars, ops, device, mnistVars, dGrad, gGrad,
                   dParams, gParams, dAtEpoch, gAtEpoch, nSaved, lastSaved>>

\* for epoch in range(num_epochs):
GanForEpoch ==
    /\ pc = "g_for_epoch"
    /\ IF epoch < GanNumEpochs
         THEN /\ pc' = "g_for_batch"
              /\ i' = 0
              /\ dAtEpoch' = dParams
              /\ gAtEpoch' = gParams
         ELSE /\ pc' = AfterCell(notebook, cell)
              /\ UNCHANGED <<gradVars, i, dAtEpoch, gAtEpoch>>
    /\ UNCHANGED <<gradVars, envVars, cell, recipe, epoch, ops, device,
                   mnistVars, dGrad, gGrad, dParams, gParams, logged, nSaved,
                   lastSaved>>

\* for i, (images, _) in enumerate(data_loader):
\* when the loader is exhausted control reaches save_fake_images(epoch+1)
GanForBatch ==
    /\ pc = "g_for_batch"
    /\ IF i < BatchesPerEpoch
         THEN pc' = "reshape" /\ ops' = <<>>
         ELSE pc' = "save" /\ ops' = ops
    /\ UNCHANGED <<gradVars, envVars, cell, recipe, epoch, i, device,
                   mnistVars, ganVars>>

\* The call of train_discriminator is missing from the loop body.
Reshape_SkipsDiscriminator ==
    /\ pc = "reshape"
    /\ device' = IF cuda THEN "cuda" ELSE "cpu"
    /\ pc' = "g_fake"
    /\ UNCHANGED <<gradVars, envVars, cell, recipe, epoch, i, ops, mnistVars,
                   ganVars>>

\* images = images.reshape(batch_size, -1).to(device)
Reshape ==
    /\ pc = "reshape"
    /\ device' = IF cuda THEN "cuda" ELSE "cpu"
    /\ pc' = "d_real"
    /\ UNCHANGED <<gradVars, envVars, cell, recipe, epoch, i, ops, mnistVars,
                   ganVars>>

\* train_discriminator: real_labels, fake_labels ; outputs = D(images) ;
\* d_loss_real = criterion(outputs, real_labels) ; real_score = outputs
DReal ==
    /\ pc = "d_real"
    /\ ops' = Append(ops, "D.forward_real")
    /\ pc' = "d_fake"
    /\ UNCHANGED <<gradVars, envVars, cell, recipe, epoch, i, device,
                   mnistVars, ganVars>>

\* z = torch.randn(...) ; fake_images = G(z) ; outputs = D(fake_images) ;
\* d_loss_fake = criterion(outputs, fake_labels) ; d_loss = real + fake
DFake ==
    /\ pc = "d_fake"
    /\ ops' = Append(ops, "D.forward_fake")
    /\ pc' = "d_reset"
    /\ UNCHANGED <<gradVars, envVars, cell, recipe, epoch, i, device,
                   mnistVars, ganVars>>

\* reset_grad(): d_optimizer.zero_grad() ; g_optimizer.zero_grad()
DResetGrad ==
    /\ pc = "d_reset"
    /\ dGrad' = 0
    /\ gGrad' = 0
    /\ ops' = Append(ops, "D.reset_grad")
    /\ pc' = "d_backward"
    /\ UNCHANGED <<gradVars, envVars, cell, recipe, epoch, i, device,
                   mnistVars, dParams, gParams, dAtEpoch, gAtEpoch, logged,
                   nSaved, lastSaved>>

\* d_loss.backward(): fake_images is not detached, so the gradient of
\* d_loss_fake flows through D into the parameters of G as well
DBackward ==
    /\ pc = "d_backward"
    /\ dGrad' = dGrad + 1
    /\ gGrad' = gGrad + 1
    /\ ops' = Append(ops, "D.backward")
    /\ pc' = "d_step"
    /\ UNCHANGED <<gradVars, envVars, cell, recipe, epoch, i, device,
                   mnistVars, dParams, gParams, dAtEpoch, gAtEpoch, logged,
                   nSaved, lastSaved>>

\* An optimizer built over the parameters of both networks.
DStep_AllParameters ==
    /\ pc = "d_step"
    /\ dParams' = dParams + 1
    /\ gParams' = gParams + 1
    /\ ops' = Append(ops, "D.step")
    /\ pc' = "g_fake"
    /\ UNCHANGED <<gradVars, envVars, cell, recipe, epoch, i, device,
                   mnistVars, dGrad, gGrad, dAtEpoch, gAtEpoch, logged,
                   nSaved, lastSaved>>

\* d_optimizer.step() with d_optimizer = Adam(D.parameters()) ;
\* return d_loss, real_score, fake_score
DStep ==
    /\ pc = "d_step"
    /\ dParams' = dParams + 1
    /\ ops' = Append(ops, "D.step")
    /\ pc' = "g_fake"
    /\ UNCHANGED <<gradVars, envVars, cell, recipe, epoch, i, device,
                   mnistVars, dGrad, gGrad, gParams, dAtEpoch, gAtEpoch,
                   logged, nSaved, lastSaved>>

\* train_generator: z = torch.randn(...) ; fake_images = G(z) ; labels ;
\* g_loss = criterion(D(fake_images), labels)
GFake ==
    /\ pc = "g_fake"
    /\ ops' = Append(ops, "G.forward")
    /\ pc' = "g_reset"
    /\ UNCHANGED <<gradVars, envVars, cell, recipe, epoch, i, device,
                   mnistVars, ganVars>>

\* reset_grad()
GResetGrad ==
    /\ pc = "g_reset"
    /\ dGrad' = 0
    /\ gGrad' = 0
    /\ ops' = Append(ops, "G.reset_grad")
    /\ pc' = "g_backward"
    /\ UNCHANGED <<gradVars, envVars, cell, recipe, epoch, i, device,
                   mnistVars, dParams, gParams, dAtEpoch, gAtEpoch, logged,
                   nSaved, lastSaved>>

\* g_loss.backward(): through D into G
GBackward ==
    /\ pc = "g_backward"
    /\ dGrad' = dGrad + 1
    /\ gGrad' = gGrad + 1
    /\ ops' = Append(ops, "G.backward")
    /\ pc' = "g_step"
    /\ UNCHANGED <<gradVars, envVars, cell, recipe, epoch, i, device,
                   mnistVars, dParams, gParams, dAtEpoch, gAtEpoch, logged,
                   nSaved, lastSaved>>

\* g_optimizer.step() with g_optimizer = Adam(G.parameters()) ;
\* return g_loss, fake_images
GStep ==
    /\ pc = "g_step"
    /\ gParams' = gParams + 1
    /\ ops' = Append(ops, "G.step")
    /\ pc' = "log"
    /\ UNCHANGED <<gradVars, envVars, cell, recipe, epoch, i, device,
                   mnistVars, dGrad, gGrad, dParams, dAtEpoch, gAtEpoch,
                   logged, nSaved, lastSaved>>

\* if (i+1) % 200 == 0: d_losses.append(...) ; ... ; print(...)
\* then the body ends and the batch loop advances
LogLosses ==
    /\ pc = "log"
    /\ logged' = IF (i + 1) % LogEvery = 0 THEN logged + 1 ELSE logged
    /\ i' = i + 1
    /\ pc' = "g_for_batch"
    /\ UNCHANGED <<gradVars, envVars, cell, recipe, epoch, ops, device,
                   mnistVars, dGrad, gGrad, dParams, gParams, dAtEpoch,
                   gAtEpoch, nSaved, lastSaved>>

\* the decimal digits of a natural number, most significant first
RECURSIVE Digits(_)
Digits(n) == IF n < 10 THEN <<n>> ELSE Append(Digits(n \div 10), n % 10)

\* '{0:0=4d}': zeros to the left up to a width of w digits
RECURSIVE ZeroPad(_, _)
ZeroPad(s, w) == IF Len(s) >= w THEN s ELSE ZeroPad(<<0>> \o s, w)

\* the digits in fake_fname = 'fake_images-{0:0=4d}.png'.format(index)
FakeFname(index) == ZeroPad(Digits(index), 4)

\* the digits in the names of the files shown after training:
\* fake_images-0010.png, -0050.png, -0100.png, -0300.png
DisplayedFnames ==
    {<<0, 0, 1, 0>>, <<0, 0, 5, 0>>, <<0, 1, 0, 0>>, <<0, 3, 0, 0>>}

\* save_fake_images(epoch) instead of save_fake_images(epoch+1): the first
\* epoch overwrites fake_images-0000.png and no file 0300 is written.
SaveFakeImages_EpochIndex ==
    /\ pc = "save"
    /\ nSaved' = nSaved + 1
    /\ lastSaved' = epoch
    /\ epoch' = epoch + 1
    /\ pc' = "g_for_epoch"
    /\ UNCHANGED <<gradVars, envVars, cell, recipe, i, ops, device, mnistVars,
                   dGrad, gGrad, dParams, gParams, dAtEpoch, gAtEpoch,
                   logged>>

\* save_fake_images(epoch+1), then the epoch loop advances
SaveFakeImages ==
    /\ pc = "save"
    /\ nSaved' = nSaved + 1
    /\ lastSaved' = epoch + 1
    /\ epoch' = epoch + 1
    /\ pc' = "g_for_epoch"
    /\ UNCHANGED <<gradVars, envVars, cell, recipe, i, ops, device, mnistVars,
                   dGrad, gGrad, dParams, gParams, dAtEpoch, gAtEpoch,
                   logged>>

(***************************************************************************)
(* The linear-regression notebook: the manual gradient-descent loop and    *)
(* fit(300, model, loss_fn, opt).                                          *)
(***************************************************************************)
ManualEpochs == 300

FitEpochs == 300

FitTrainSize == 15

fit_batch_size == 5

PrintEvery == 10

\* for i in range(300):
StartManualLoop ==
    /\ pc = "cells"
    /\ cell <= LastCell(notebook)
    /\ Cells(notebook)[cell] = "train_manual"
    /\ recipe' = Append(recipe, "train")
    /\ cell' = cell + 1
    /\ i' = 0
    /\ pc' = "m_for"
    /\ UNCHANGED <<gradVars, envVars, epoch, ops, device, mnistVars, ganVars>>

ManualFor ==
    /\ pc = "m_for"
    /\ IF i < ManualEpochs
         THEN pc' = "m_preds" /\ ops' = <<>>
         ELSE pc' = AfterCell(notebook, cell) /\ ops' = ops
    /\ UNCHANGED <<gradVars, envVars, cell, recipe, epoch, i, device,
                   mnistVars, ganVars>>

\* preds = model(inputs)
ManualPreds ==
    /\ pc = "m_preds"
    /\ ops' = Append(ops, "forward")
    /\ pc' = "m_loss"
    /\ preds' = params
    /\ UNCHANGED <<x, xGrad, loss, wGrad, atReset, envVars, cell, recipe,
                   epoch, i, device, mnistVars, ganVars>>

\* loss = mse(preds, targets)
ManualLoss ==
    /\ pc = "m_loss"
    /\ ops' = Append(ops, "loss")
    /\ pc' = "m_backward"
    /\ loss' = preds
    /\ UNCHANGED <<x, xGrad, preds, wGrad, atReset, envVars, cell, recipe,
                   epoch, i, device, mnistVars, ganVars>>

\* loss.backward()
ManualBackward ==
    /\ pc = "m_backward"
    /\ grad' = grad + 1
    /\ ops' = Append(ops, "backward")
    /\ pc' = "m_update"
    /\ wGrad' = Append(wGrad, loss)
    /\ UNCHANGED <<x, xGrad, preds, loss, atReset, envVars, cell, recipe,
                   epoch, i, device, iter, params, te, total, printed,
                   ganVars>>

\* with torch.no_grad(): w -= w.grad * 1e-5 ; b -= b.grad * 1e-5
ManualUpdate ==
    /\ pc = "m_update"
    /\ params' = params + 1
    /\ ops' = Append(ops, "step")
    /\ pc' = "m_zero"
    /\ UNCHANGED <<gradVars, envVars, cell, recipe, epoch, i, device, iter,
                   grad, te, total, printed, ganVars>>

\* the two .grad.zero_() calls are missing from the loop body.
ManualZero_Missing ==
    /\ pc = "m_zero"
    /\ ops' = ops
    /\ i' = i + 1
    /\ pc' = "m_for"
    /\ UNCHANGED <<gradVars, envVars, cell, recipe, epoch, device, mnistVars,
                   ganVars>>

\* w.grad.zero_() ; b.grad.zero_() ; then the loop advances
ManualZero ==
    /\ pc = "m_zero"
    /\ grad' = 0
    /\ ops' = Append(ops, "zero_grad")
    /\ i' = i + 1
    /\ pc' = "m_for"
    /\ wGrad' = <<>>
    /\ UNCHANGED <<x, xGrad, preds, loss, atReset, envVars, cell, recipe,
                   epoch, device, iter, params, te, total, printed, ganVars>>

\* fit(300, model, loss_fn, opt): for epoch in range(num_epochs):
StartFit ==
    /\ pc = "cells"
    /\ cell <= LastCell(notebook)
    /\ Cells(notebook)[cell] = "train_fit"
    /\ recipe' = Append(recipe, "train")
    /\ cell' = cell + 1
    /\ epoch' = 0
    /\ pc' = "f_for_epoch"
    /\ UNCHANGED <<gradVars, envVars, i, ops, device, mnistVars, ganVars>>

FitForEpoch ==
    /\ pc = "f_for_epoch"
    /\ IF epoch < FitEpochs
         THEN pc' = "f_for_batch" /\ i' = 0
         ELSE pc' = AfterCell(notebook, cell) /\ i' = i
    /\ UNCHANGED <<gradVars, envVars, cell, recipe, epoch, ops, device,
                   mnistVars, ganVars>>

\* for xb, yb in train_dl: ; after the last batch: the progress check
FitForBatch ==
    /\ pc = "f_for_batch"
    /\ IF i < CeilDiv(FitTrainSize, fit_batch_size)
         THEN pc' = "f_pred" /\ ops' = <<>>
         ELSE pc' = "f_print" /\ ops' = ops
    /\ UNCHANGED <<gradVars, envVars, cell, recipe, epoch, i, device,
                   mnistVars, ganVars>>

\* pred = model(xb)
FitPred ==
    /\ pc = "f_pred"
    /\ ops' = Append(ops, "forward")
    /\ pc' = "f_loss"
    /\ UNCHANGED <<gradVars, envVars, cell, recipe, epoch, i, device,
                   mnistVars, ganVars>>

\* loss = loss_fn(pred, yb)
FitLoss ==
    /\ pc = "f_loss"
    /\ ops' = Append(ops, "loss")
    /\ pc' = "f_backward"
    /\ UNCHANGED <<gradVars, envVars, cell, recipe, epoch, i, device,
                   mnistVars, ganVars>>

\* loss.backward()
FitBackward ==
    /\ pc = "f_backward"
    /\ grad' = grad + 1
    /\ ops' = Append(ops, "backward")
    /\ pc' = "f_step"
    /\ wGrad' = Append(wGrad, params)
    /\ UNCHANGED <<x, xGrad, preds, loss, atReset, envVars, cell, recipe,
                   epoch, i, device, iter, params, te, total, printed,
                   ganVars>>

\* opt.step()
FitStep ==
    /\ pc = "f_step"
    /\ params' = params + 1
    /\ ops' = Append(ops, "step")
    /\ pc' = "f_zero"
    /\ UNCHANGED <<gradVars, envVars, cell, recipe, epoch, i, device, iter,
                   grad, te, total, printed, ganVars>>

\* opt.zero_grad() ; then the batch loop advances
FitZeroGrad ==
    /\ pc = "f_zero"
    /\ grad' = 0
    /\ ops' = Append(ops, "zero_grad")
    /\ i' = i + 1
    /\ pc' = "f_for_batch"
    /\ wGrad' = <<>>
    /\ UNCHANGED <<x, xGrad, preds, loss, atReset, envVars, cell, recipe,
                   epoch, device, iter, params, te, total, printed, ganVars>>

\* if (epoch+1) % 10 == 0: print('Epoch [{}/{}], Loss: ...') ; next epoch
FitPrint ==
    /\ pc = "f_print"
    /\ printed' = IF (epoch + 1) % PrintEvery = 0
                    THEN Append(printed, epoch + 1)
                    ELSE printed
    /\ epoch' = epoch + 1
    /\ pc' = "f_for_epoch"
    /\ UNCHANGED <<gradVars, envVars, cell, recipe, i, ops, device, iter, grad,
                   params, te, total, ganVars>>

(***************************************************************************)
(* A framework call raising: nothing catches it, the cell ends there.      *)
(***************************************************************************)
\* positions whose statement is a call into the framework
CallPcs == {"convert", "zero_grad", "forward", "loss", "backward", "step",
            "eval_batch", "print",
            "reshape", "d_real", "d_fake", "d_reset", "d_backward", "d_step",
            "g_fake", "g_reset", "g_backward", "g_step", "log", "save",
            "m_preds", "m_loss", "m_backward", "m_update", "m_zero",
            "f_pred", "f_loss", "f_backward", "f_step", "f_zero", "f_print"}

\* the head of the loop a statement belongs to
LoopHead(nb, p) ==
    CASE nb \in Mnist -> "for_batch"
      [] nb = "gan" -> "g_for_batch"
      [] p \in {"m_preds", "m_loss", "m_backward", "m_update", "m_zero"} -> "m_for"
      [] OTHER -> "f_for_batch"

\* The exception is swallowed and the loop goes on with the next batch.
Raise_Caught ==
    /\ pc \in CallPcs
    /\ raises' = raises + 1
    /\ pc' = LoopHead(notebook, pc)
    /\ i' = i + 1
    /\ UNCHANGED <<gradVars, notebook, cuda, cell, recipe, epoch, ops, device,
                   mnistVars, ganVars>>

\* the call at pc raises; no try/except surrounds any loop, so the
\* exception ends the cell
Raise ==
    /\ pc \in CallPcs
    /\ raises' = raises + 1
    /\ pc' = "raised"
    /\ UNCHANGED <<gradVars, notebook, cuda, cell, recipe, epoch, i, ops,
                   device, mnistVars, ganVars>>

Next ==
    \/ RunCell
    \/ StartTraining
    \/ ForEpoch
    \/ ForBatch
    \/ Convert
    \/ ZeroGrad
    \/ Forward
    \/ Loss
    \/ Backward
    \/ Step
    \/ Incr
    \/ EvalBatch
    \/ PrintProgress
    \/ SaveBeforeTraining
    \/ StartGanTraining
    \/ GanForEpoch
    \/ GanForBatch
    \/ Reshape
    \/ DReal
    \/ DFake
    \/ DResetGrad
    \/ DBackward
    \/ DStep
    \/ GFake
    \/ GResetGrad
    \/ GBackward
    \/ GStep
    \/ LogLosses
    \/ SaveFakeImages
    \/ StartManualLoop
    \/ ManualFor
    \/ ManualPreds
    \/ ManualLoss
    \/ ManualBackward
    \/ ManualUpdate
    \/ ManualZero
    \/ StartFit
    \/ FitForEpoch
    \/ FitForBatch
    \/ FitPred
    \/ FitLoss
    \/ FitBackward
    \/ FitStep
    \/ FitZeroGrad
    \/ FitPrint
    \/ Raise

Spec == Init /\ [][Next]_vars

\* The MNIST CNN / LSTM training programs alone.
MnistInit == Init /\ notebook \in Mnist

MnistNext ==
    \/ RunCell
    \/ StartTraining
    \/ ForEpoch
    \/ ForBatch
    \/ Convert
    \/ ZeroGrad
    \/ Forward
    \/ Loss
    \/ Backward
    \/ Step
    \/ Incr
    \/ EvalBatch
    \/ PrintProgress
    \/ Raise

MnistSpec == MnistInit /\ [][MnistNext]_vars

\* The gradient notebook and the linear-regression notebook alone.
AutogradInit == Init /\ notebook \in {"grad", "linreg"}

AutogradNext ==
    \/ RunCell
    \/ StartManualLoop
    \/ ManualFor
    \/ ManualPreds
    \/ ManualLoss
    \/ ManualBackward
    \/ ManualUpdate
    \/ ManualZero
    \/ StartFit
    \/ FitForEpoch
    \/ FitForBatch
    \/ FitPred
    \/ FitLoss
    \/ FitBackward
    \/ FitStep
    \/ FitZeroGrad
    \/ FitPrint
    \/ Raise

AutogradSpec == AutogradInit /\ [][AutogradNext]_vars

\* The GAN notebook alone.
GanInit == Init /\ notebook = "gan"

GanNext ==
    \/ RunCell
    \/ SaveBeforeTraining
    \/ StartGanTraining
    \/ GanForEpoch
    \/ GanForBatch
    \/ Reshape
    \/ DReal
    \/ DFake
    \/ DResetGrad
    \/ DBackward
    \/ DStep
    \/ GFake
    \/ GResetGrad
    \/ GBackward
    \/ GStep
    \/ LogLosses
    \/ SaveFakeImages
    \/ Raise

GanSpec == GanInit /\ [][GanNext]_vars

(***************************************************************************)
(* Properties.                                                             *)
(***************************************************************************)
IsPrefix(s, t) == Len(s) <= Len(t) /\ s = SubSeq(t, 1, Len(s))

\* the calls of one MNIST training iteration, in the order of the source
TrainOps == <<"zero_grad", "forward", "loss", "backward", "step">>

\* how many of them precede each position of the loop body
OpsBefore(p) ==
    CASE p \in {"convert", "zero_grad"} -> 0
      [] p = "forward" -> 1
      [] p = "loss" -> 2
      [] p = "backward" -> 3
      [] p = "step" -> 4
      [] OTHER -> 5

BodyPcs == {"convert", "zero_grad", "forward", "loss", "backward", "step",
            "incr", "eval_batch", "print"}

\* C1: in the CNN and LSTM loops every training iteration makes the calls
\* zero_grad, forward, loss, backward, step in this order and once each:
\* at every position of the body exactly the calls before it have been
\* made, the gradient buffers are empty when backward is called and hold
\* exactly this batch's gradient when step is called, and an iteration
\* that is over has made all five.
C1_IterationOrder ==
    notebook \in Mnist =>
        /\ IsPrefix(ops, TrainOps)
        /\ pc \in BodyPcs => ops = SubSeq(TrainOps, 1, OpsBefore(pc))
        /\ pc \in {"zero_grad", "forward", "loss", "backward"} => params = iter
        /\ pc = "backward" => grad = 0
        /\ pc = "step" => grad = 1
        /\ (pc \in {"for_batch", "for_epoch", "done"} /\ iter > 0) => ops = TrainOps

C1_Witness ==
    /\ notebook = "lstm"
    /\ pc = "incr"
    /\ iter = 1
    /\ ops = TrainOps
    /\ params = 2

\* C3: with 60,000 examples, batch_size 100 and n_iters 3000, num_epochs
\* is 5, every epoch runs 600 iterations, and the loop ends with
\* iter = 3000.
C3_ThreeThousandIterations ==
    notebook \in Mnist =>
        /\ num_epochs = 5
        /\ pc = "for_epoch" => (iter = 600 * epoch /\ epoch <= 5)
        /\ pc = "for_batch" => (iter = 600 * epoch + i /\ i <= 600)
        /\ pc = "done" => (iter = 3000 /\ epoch = 5)
        /\ iter <= 3000

C3_Witness ==
    /\ notebook = "cnn"
    /\ pc = "done"
    /\ iter = 3000
    /\ params = 3000

\* the progress lines of the first n evaluations
Multiples(n) == [k \in 1..n |-> EvalEvery * k]

EvalPcs == {"eval_batch", "print"}

\* C4: an evaluation and its progress line happen exactly at the
\* iterations whose iter is a positive multiple of 500, right after that
\* iteration's optimizer.step(): while no call has raised, the lines
\* printed are those of all multiples of 500 up to iter (the current one
\* excepted while its evaluation is running), the evaluation runs on the
\* parameters of exactly iter updates, and a complete run has printed
\* 500, 1000, 1500, 2000, 2500, 3000.
C4_ProgressLines ==
    (notebook \in Mnist /\ pc # "raised") =>
        /\ printed = Multiples(IF pc \in EvalPcs
                                 THEN (iter \div EvalEvery) - 1
                                 ELSE iter \div EvalEvery)
        /\ pc \in EvalPcs => (iter > 0 /\ iter % EvalEvery = 0 /\ params = iter)
        /\ pc = "print" => total = TestSize
        /\ pc = "done" => printed = <<500, 1000, 1500, 2000, 2500, 3000>>

C4_Witness ==
    /\ notebook = "cnn_gpu"
    /\ pc = "done"
    /\ printed = <<500, 1000, 1500, 2000, 2500, 3000>>

\* The CPU-only MNIST loop as a function on its control state: the
\* position, epoch, batch index, iter and test-batch index after one
\* statement that does not raise.
CpuLoopSucc(p, e, b, n, t) ==
    CASE p = "for_epoch" ->
           IF e < num_epochs THEN <<"for_batch", e, 0, n, t>>
                             ELSE <<"done", e, b, n, t>>
      [] p = "for_batch" ->
           IF b < BatchesPerEpoch THEN <<"convert", e, b, n, t>>
                                  ELSE <<"for_epoch", e + 1, b, n, t>>
      [] p = "convert" -> <<"zero_grad", e, b, n, t>>
      [] p = "zero_grad" -> <<"forward", e, b, n, t>>
      [] p = "forward" -> <<"loss", e, b, n, t>>
      [] p = "loss" -> <<"backward", e, b, n, t>>
      [] p = "backward" -> <<"step", e, b, n, t>>
      [] p = "step" -> <<"incr", e, b, n, t>>
      [] p = "incr" ->
           IF (n + 1) % EvalEvery = 0 THEN <<"eval_batch", e, b, n + 1, 0>>
                                      ELSE <<"for_batch", e, b + 1, n + 1, t>>
      [] p = "eval_batch" ->
           IF t < TestBatches THEN <<"eval_batch", e, b, n, t + 1>>
                              ELSE <<"print", e, b, n, t>>
      [] p = "print" -> <<"for_batch", e, b + 1, n, t>>
      [] OTHER -> <<p, e, b, n, t>>

LoopPcs == BodyPcs \cup {"for_epoch", "for_batch"}

\* C7: in the GPU cells the value of torch.cuda.is_available() decides
\* only where the tensors are placed: for either value every statement
\* that does not raise takes the loop to the control state the CPU-only
\* loop goes to, and the tensors are on the GPU exactly when it is
\* available.
C7_CudaOnlyPlacement ==
    [][(notebook \in MnistGpu /\ pc \in LoopPcs /\ pc' # "raised") =>
           /\ <<pc', epoch', i', iter', te'>> = CpuLoopSucc(pc, epoch, i, iter, te)
           /\ device' \in {"none", IF cuda THEN "cuda" ELSE "cpu"}]_vars

C7_Witness ==
    /\ notebook = "lstm_gpu"
    /\ cuda
    /\ device = "cuda"
    /\ pc = "done"
    /\ iter = 3000
    /\ Len(printed) = 6

DiscPcs == {"d_real", "d_fake", "d_reset", "d_backward", "d_step"}

GenPcs == {"g_fake", "g_reset", "g_backward", "g_step"}

\* batches of the GAN loop whose body is over or under way before pc
GanBatches ==
    IF pc \in {"g_for_epoch", "cells", "done"}
      THEN epoch * BatchesPerEpoch
      ELSE epoch * BatchesPerEpoch + i

SevenSteps == <<"load", "loader", "define", "instantiate", "loss",
                "optimizer", "train">>

\* the recipe step a cell is, the two loops of the linear-regression
\* notebook being training loops as well
StepOf(kind) ==
    IF kind \in {"train_manual", "train_fit"} THEN "train" ELSE kind

IsRecipeStep(kind) ==
    StepOf(kind) \in {SevenSteps[k] : k \in 1..Len(SevenSteps)}

RecipeCells == SelectSeq(recipe, IsRecipeStep)

\* the recipe steps among the cells run so far
RecipeSteps == [k \in 1..Len(RecipeCells) |-> StepOf(RecipeCells[k])]

\* C5 as stated: every notebook of the repository, once run to its end,
\* has gone through exactly the seven steps, in order.
C5_EveryNotebookSevenSteps ==
    pc = "done" => RecipeSteps = SevenSteps

\* C5 as amended: the CNN and LSTM training programs go through the seven
\* steps in order (their steps so far are always a prefix of the seven,
\* and all seven once training has begun); the gradient notebook and the
\* linear-regression notebook end having followed a different sequence.
C5_MnistSevenSteps ==
    /\ notebook \in Mnist =>
           /\ IsPrefix(RecipeSteps, SevenSteps)
           /\ pc # "cells" => RecipeSteps = SevenSteps
    /\ (notebook \in {"grad", "linreg"} /\ pc = "done") =>
           RecipeSteps # SevenSteps

C5_Witness ==
    /\ notebook = "lstm"
    /\ pc = "forward"
    /\ iter = 1
    /\ RecipeSteps = SevenSteps

\* what a raising call must leave alone
Kept == <<notebook, cuda, cell, recipe, epoch, i, ops, device, mnistVars,
          ganVars, gradVars>>

\* the statements from which the program goes on
RunningPcs == CallPcs \cup {"cells", "for_epoch", "for_batch", "incr",
                            "g_for_epoch", "g_for_batch", "m_for",
                            "f_for_epoch", "f_for_batch"}

\* a step in which a call raises
Stopped == pc' = "raised" /\ raises' = 1 /\ Kept' = Kept

\* a step in which no call raises
Running == pc' # "raised" /\ pc \in RunningPcs

\* C6: no loop catches or retries a failure: a call that raises ends the
\* cell where it is and changes nothing, in particular no parameter; and
\* after a call has raised no statement is executed any more (no later
\* iteration, evaluation, update or file).
C6_FailureStops ==
    [][raises = 0 /\ (IF raises' # raises THEN Stopped ELSE Running)]_vars

C6_Witness ==
    /\ notebook = "gan"
    /\ pc = "raised"
    /\ raises = 1
    /\ dParams = 3
    /\ gParams = 2
    /\ ops = <<"D.forward_real", "D.forward_fake", "D.reset_grad",
               "D.backward", "D.step", "G.forward", "G.reset_grad">>

\* what a statement of train_discriminator does to the two networks
DiscriminatorStatement ==
    pc \in DiscPcs =>
        /\ gParams' = gParams
        /\ (pc = "d_backward" /\ pc' # "raised") =>
               (gGrad = 0 /\ gGrad' = 1 /\ dGrad' = 1)
        /\ (pc = "d_step" /\ pc' # "raised") =>
               (gGrad' = 1 /\ dParams' = dParams + 1)

\* C8: train_discriminator never changes the generator's weights: no
\* statement of it changes G's parameters, although d_loss.backward() does
\* put a gradient into G's .grad buffers; d_optimizer.step() updates D.
C8_DiscriminatorLeavesG == [][DiscriminatorStatement]_vars

C8_Witness ==
    /\ notebook = "gan"
    /\ pc = "g_fake"
    /\ epoch = 0
    /\ i = 1
    /\ gGrad = 1
    /\ dParams = 2
    /\ gParams = 1

\* the calls of one GAN batch, in the order of the source
GanOps == <<"D.forward_real", "D.forward_fake", "D.reset_grad", "D.backward",
            "D.step", "G.forward", "G.reset_grad", "G.backward", "G.step">>

C10_EpochPhases ==
    notebook = "gan" => ~(dParams > dAtEpoch /\ gParams > gAtEpoch)

\* the GAN training cell has run to its end
GanTrained ==
    /\ notebook = "gan"
    /\ pc \in {"cells", "done"}
    /\ \E k \in 1..Len(recipe) : recipe[k] = "train"

\* the names of the files written so far, given that the indices written
\* are 0 .. lastSaved
WrittenFnames == {FakeFname(k) : k \in 0..lastSaved}

\* what a step does to the files: a file is written only by
\* save_fake_images(0) before training and by save_fake_images(epoch+1)
\* after the last batch of an epoch, and its index is the number of files
\* written before it
SavesInOrder ==
    /\ (nSaved' # nSaved \/ lastSaved' # lastSaved) =>
           /\ nSaved' = nSaved + 1
           /\ lastSaved' = lastSaved + 1
           /\ lastSaved' = nSaved
           /\ \/ pc = "cells" /\ lastSaved' = 0 /\ recipe' = Append(recipe, "sample")
              \/ pc = "save" /\ i = BatchesPerEpoch /\ lastSaved' = epoch + 1
    /\ (pc = "g_for_batch" /\ i = BatchesPerEpoch /\ pc' # "raised") =>
           pc' = "save"
    /\ (pc = "save" /\ pc' # "raised") => nSaved' = nSaved + 1
    /\ GanTrained' =>
           /\ nSaved' = GanNumEpochs + 1
           /\ lastSaved' = GanNumEpochs
           /\ FakeFname(lastSaved') = <<0, 3, 0, 0>>
           /\ Cardinality(WrittenFnames') = nSaved'
           /\ DisplayedFnames \subseteq WrittenFnames'

\* C11: generated images are saved at the end of every epoch:
\* save_fake_images(0) runs once before training and
\* save_fake_images(epoch+1) after the last batch of each epoch, every
\* file's index being one more than the one before it; so once the 300
\* epochs are over 301 files, fake_images-0000.png to -0300.png, have
\* been written, each once and in increasing order, among them the four
\* files shown afterwards.
C11_SavedEveryEpoch == [][notebook = "gan" => SavesInOrder]_vars

C11_Witness ==
    /\ notebook = "gan"
    /\ pc = "g_for_epoch"
    /\ epoch = 10
    /\ nSaved = 11
    /\ lastSaved = 10
    /\ FakeFname(lastSaved) \in DisplayedFnames

\* C12: in the manual gradient-descent loop w.grad and b.grad are reset
\* after every update: they are zero at the head of every iteration and
\* up to its loss.backward(), and at the update they hold exactly one
\* gradient, that of the loss computed in this iteration from the
\* predictions of the current w and b.
C12_GradientsResetEveryIteration ==
    notebook = "linreg" =>
        /\ pc \in {"m_for", "m_preds", "m_loss", "m_backward"} =>
               (wGrad = <<>> /\ grad = 0)
        /\ pc = "m_backward" => (preds = params /\ loss = params)
        /\ pc = "m_update" =>
               (wGrad = <<params>> /\ grad = 1 /\ loss = params
                    /\ params = i + 1)
        /\ pc = "m_zero" => wGrad = <<params - 1>>

C12_Witness ==
    /\ notebook = "linreg"
    /\ pc = "m_update"
    /\ i = 2
    /\ params = 3
    /\ wGrad = <<3>>

IsBackward(kind) == kind = "backward"

\* the backward cells run so far
NBackward == Len(SelectSeq(recipe, IsBackward))

\* C13: gradients accumulate across backward calls: with x = [1, 1],
\* y = 5 * (x + 1) ** 2 = [20, 20] and o = (1/2) * sum(y) = 20, x.grad is
\* [10, 10] after the first o.backward and [20, 20] after the second.
C13_GradientsAccumulate ==
    notebook = "grad" =>
        /\ x # <<>> => (x = <<1, 1>> /\ Y(x) = <<20, 20>> /\ O(x) = 20)
        /\ NBackward = 0 => xGrad = <<>>
        /\ NBackward = 1 => xGrad = <<10, 10>>
        /\ NBackward = 2 => xGrad = <<20, 20>>
        /\ NBackward <= 2

C13_Witness ==
    /\ notebook = "grad"
    /\ pc = "done"
    /\ NBackward = 2
    /\ xGrad = <<20, 20>>

\* the cells run last are those of t
RecipeEndsWith(t) ==
    /\ Len(recipe) >= Len(t)
    /\ SubSeq(recipe, Len(recipe) - Len(t) + 1, Len(recipe)) = t

\* C14: the cell w.grad.zero_() ; b.grad.zero_() changes neither w nor b
\* (it empties the gradients only), and the predictions, the loss and the
\* gradients computed again by the three cells after it are the ones
\* there were before the reset.
C14_ResetKeepsWeights ==
    notebook = "linreg" =>
        /\ RecipeEndsWith(<<"zero">>) =>
               (params = atReset[1] /\ wGrad = <<>> /\ atReset[4] # <<>>)
        /\ RecipeEndsWith(<<"zero", "forward">>) =>
               (params = atReset[1] /\ preds = atReset[2])
        /\ RecipeEndsWith(<<"zero", "forward", "compute_loss">>) =>
               (params = atReset[1] /\ preds = atReset[2]
                    /\ loss = atReset[3])
        /\ RecipeEndsWith(<<"zero", "forward", "compute_loss", "backward">>) =>
               <<params, preds, loss, wGrad>> = atReset

C14_Witness ==
    /\ notebook = "linreg"
    /\ RecipeEndsWith(<<"zero", "forward", "compute_loss", "backward">>)
    /\ wGrad = <<0>>
    /\ atReset = <<0, 0, 0, <<0>>>>

====
